---- MODULE Spec2Model ----
(***************************************************************************)
(* DataProcessor.map_test_data (src/database.py): the four training        *)
(* series are matched to their best-fitting ideal function by mean squared *)
(* error, then every row of the test data is matched to one of the four    *)
(* selected functions under a sqrt(2) tolerance.                           *)
(*                                                                         *)
(* Numbers are integers (every x and y of the data is a multiple of one    *)
(* unit), so the float arithmetic of the code is exact here.  Three float  *)
(* and object values that are no numbers are kept apart from them: inf,    *)
(* nan and None.                                                           *)
(***************************************************************************)
EXTENDS Integers, Sequences, FiniteSets

VARIABLES training_df, ideal_df, test_df, best_fit_funcs, results, pc, exc,
          training_series, best_func

(* training_series and best_func are the argument and the value of the     *)
(* latest call of _find_best_fit; the others are the locals of             *)
(* map_test_data.                                                          *)
vars == <<training_df, ideal_df, test_df, best_fit_funcs, results, pc, exc,
          training_series, best_func>>

----------------------------------------------------------------------------
(* Bounds of the checked instances.                                        *)

MaxRows == 2     \* rows of the training table and of the ideal table
MaxStart == 1    \* first x of a table; the x grid is start, start+1, ...
MaxY == 1        \* y values are 0 .. MaxY
MaxIdeal == 2    \* columns y1 .. yK of the ideal table, K <= MaxIdeal
MaxTest == 2     \* rows of the test file

(* range(1, 5): the training columns y1 .. y4.                             *)
NumTraining == 4

(* float('inf'), a float NaN, and None.  y values, deviations and squared  *)
(* errors are >= 0 and column numbers are >= 1, so none of them is one of  *)
(* these.                                                                  *)
inf == -1
nan == -2
None == -3

----------------------------------------------------------------------------
(* Float comparison: every comparison with NaN is false; inf is above      *)
(* every number.                                                           *)

FloatLt(a, b) ==
    IF a = nan \/ b = nan THEN FALSE
    ELSE IF a = inf THEN FALSE
    ELSE IF b = inf THEN TRUE
    ELSE a < b

Abs(v) == IF v < 0 THEN -v ELSE v

RECURSIVE SumTo(_, _)
SumTo(f, n) == IF n = 0 THEN 0 ELSE f[n] + SumTo(f, n - 1)

(* Series.max(): NaN entries are skipped; NaN when nothing is left.        *)
MaxOf(S) ==
    IF S = {} THEN nan
    ELSE LET v == CHOOSE v \in S : \A w \in S : w <= v IN v

----------------------------------------------------------------------------
(* The tables.  A training table has a column x and the columns y1..y4,    *)
(* and its index is the row position 0 .. n-1.  The ideal table is indexed *)
(* by its x column (set_index('x')) and has the columns y1 .. yK.          *)

YValues == 0 .. MaxY

Grids(n) == { [i \in 1 .. n |-> s + i - 1] : s \in 0 .. MaxStart }

Column(n) == [1 .. n -> YValues]

TrainingFrames ==
    UNION { [x : Grids(n), y : [1 .. NumTraining -> Column(n)]] : n \in 0 .. MaxRows }

IdealFrames ==
    UNION { [index : Grids(n), cols : [1 .. k -> Column(n)]] :
              n \in 0 .. MaxRows, k \in 0 .. MaxIdeal }

TestPoints == [x : 0 .. MaxStart, y : YValues]

TestFrames == UNION { [1 .. n -> TestPoints] : n \in 0 .. MaxTest }

----------------------------------------------------------------------------
(* sklearn.metrics.mean_squared_error pairs its two arguments by position  *)
(* and raises ValueError when their lengths differ or when they are empty. *)
(* The value is the mean of the squared differences; it is kept here as    *)
(* their sum, n times the mean: _find_best_fit only compares the values of *)
(* columns of one table, which all have the same n.                        *)

MseRaises(y_true, y_pred) == Len(y_true) # Len(y_pred) \/ Len(y_true) = 0

mean_squared_error(y_true, y_pred) ==
    SumTo([p \in 1 .. Len(y_true) |-> (y_true[p] - y_pred[p]) * (y_true[p] - y_pred[p])],
          Len(y_true))

RECURSIVE FindBestFitLoop(_, _, _, _, _)
(* The loop with "mse <= min_mse" for its test.                            *)
FindBestFitLoopLe(series, ideal, col, min_mse, best) ==
    IF col > Len(ideal.cols) THEN best
    ELSE LET mse == mean_squared_error(series, ideal.cols[col])
         IN  IF ~FloatLt(min_mse, mse)
             THEN FindBestFitLoop(series, ideal, col + 1, mse, col)
             ELSE FindBestFitLoop(series, ideal, col + 1, min_mse, best)

(* _find_best_fit: the loop over ideal_df.columns from column col on, with *)
(* the accumulators min_mse and best (best_func).                          *)
FindBestFitLoop(series, ideal, col, min_mse, best) ==
    IF col > Len(ideal.cols) THEN best
    ELSE LET mse == mean_squared_error(series, ideal.cols[col])
         IN  IF FloatLt(mse, min_mse)
             THEN FindBestFitLoop(series, ideal, col + 1, mse, col)
             ELSE FindBestFitLoop(series, ideal, col + 1, min_mse, best)

FindBestFit(series, ideal) ==
    FindBestFitLoop(series, ideal, 1, inf, None)

(* The first mean_squared_error call raises, if there is a column at all.  *)
FindBestFitRaises(series, ideal) ==
    /\ Len(ideal.cols) > 0
    /\ MseRaises(series, ideal.cols[1])

----------------------------------------------------------------------------
(* _find_best_match.                                                       *)

HasX(ideal, x_val) == \E q \in 1 .. Len(ideal.index) : ideal.index[q] = x_val

(* ideal_df.loc[x_val, ideal_func]: the value of the column in the row     *)
(* whose index label is x_val.                                             *)
Loc(ideal, x_val, ideal_func) ==
    LET q == CHOOSE q \in 1 .. Len(ideal.index) : ideal.index[q] = x_val
    IN  ideal.cols[ideal_func][q]

(* abs(training_df[f'y{idx+1}'] - ideal_df[ideal_func]).max(): the         *)
(* subtraction aligns the two series on their index labels, the training   *)
(* series' row positions 0 .. n-1 and the ideal series' x values; a label  *)
(* only one of them has gives NaN, which max() skips.                      *)
MaxAbsDiff(training, ideal, idx, ideal_func) ==
    MaxOf({ Abs(training.y[idx][p] - ideal.cols[ideal_func][q]) :
              <<p, q>> \in { pq \in (1 .. Len(training.x)) \X (1 .. Len(ideal.index)) :
                               pq[1] - 1 = ideal.index[pq[2]] } })

(* deviation <= np.sqrt(2) * m, for integers deviation, m >= 0.            *)
WithinAllowed(deviation, m) ==
    /\ m # nan
    /\ deviation * deviation <= 2 * m * m

RECURSIVE FindBestMatchLoop(_, _, _, _, _, _, _)
(* The loop with "deviation <= min_deviation" for its second test.         *)
FindBestMatchLoopLe(x_val, y_val, funcs, ideal, training, idx, acc) ==
    IF idx > Len(funcs) THEN acc
    ELSE LET ideal_func == funcs[idx]
             deviation == Abs(y_val - Loc(ideal, x_val, ideal_func))
             m == MaxAbsDiff(training, ideal, idx, ideal_func)
         IN  IF WithinAllowed(deviation, m) /\ ~FloatLt(acc.min_deviation, deviation)
             THEN FindBestMatchLoop(x_val, y_val, funcs, ideal, training, idx + 1,
                                    [best_fit |-> idx, min_deviation |-> deviation])
             ELSE FindBestMatchLoop(x_val, y_val, funcs, ideal, training, idx + 1, acc)

(* The loop over enumerate(best_fit_funcs) from entry idx (1-based) on,    *)
(* with the accumulators min_deviation and best_fit.                       *)
FindBestMatchLoop(x_val, y_val, funcs, ideal, training, idx, acc) ==
    IF idx > Len(funcs) THEN acc
    ELSE LET ideal_func == funcs[idx]
             deviation == Abs(y_val - Loc(ideal, x_val, ideal_func))
             m == MaxAbsDiff(training, ideal, idx, ideal_func)
         IN  IF WithinAllowed(deviation, m) /\ FloatLt(deviation, acc.min_deviation)
             THEN FindBestMatchLoop(x_val, y_val, funcs, ideal, training, idx + 1,
                                    [best_fit |-> idx, min_deviation |-> deviation])
             ELSE FindBestMatchLoop(x_val, y_val, funcs, ideal, training, idx + 1, acc)

FindBestMatch(x_val, y_val, funcs, ideal, training) ==
    FindBestMatchLoop(x_val, y_val, funcs, ideal, training, 1,
                      [best_fit |-> None, min_deviation |-> inf])

(* ideal_df.loc[x_val, ideal_func] raises KeyError when x_val is no label  *)
(* of the index or ideal_func is no column.                                *)
FindBestMatchRaises(x_val, funcs, ideal) ==
    /\ Len(funcs) > 0
    /\ \/ ~HasX(ideal, x_val)
       \/ \E idx \in 1 .. Len(funcs) : funcs[idx] = None

----------------------------------------------------------------------------
(* map_test_data.                                                          *)

ResultRow(row, match) ==
    [x |-> row.x, y |-> row.y,
     delta_y |-> match.min_deviation, ideal_func_no |-> match.best_fit]

(* results.insert(0, ...) in the place of results.append(...).              *)
ResultsPrepend(rs, r) == <<r>> \o rs

ResultsAppend(rs, r) == Append(rs, r)

Init ==
    /\ training_df \in TrainingFrames
    /\ ideal_df \in IdealFrames
    /\ test_df \in TestFrames
    /\ best_fit_funcs = <<>>
    /\ results = <<>>
    /\ pc = "fit"
    /\ exc = "none"
    /\ training_series = <<>>
    /\ best_func = None

(* One pass of the loop of lines 118-120.                                  *)
FitStep ==
    /\ pc = "fit"
    /\ LET i == Len(best_fit_funcs) + 1
       IN  /\ ~FindBestFitRaises(training_df.y[i], ideal_df)
           /\ training_series' = training_df.y[i]
           /\ best_func' = FindBestFit(training_df.y[i], ideal_df)
           /\ best_fit_funcs' = Append(best_fit_funcs, best_func')
           /\ pc' = IF i = NumTraining THEN "match" ELSE "fit"
    /\ UNCHANGED <<training_df, ideal_df, test_df, results, exc>>

FitRaise ==
    /\ pc = "fit"
    /\ FindBestFitRaises(training_df.y[Len(best_fit_funcs) + 1], ideal_df)
    /\ training_series' = training_df.y[Len(best_fit_funcs) + 1]
    /\ pc' = "raised"
    /\ exc' = "ValueError"
    /\ UNCHANGED <<training_df, ideal_df, test_df, best_fit_funcs, results, best_func>>

(* One pass of the loop of lines 123-125.                                  *)
MatchStep ==
    /\ pc = "match"
    /\ Len(results) < Len(test_df)
    /\ LET row == test_df[Len(results) + 1]
       IN  /\ ~FindBestMatchRaises(row.x, best_fit_funcs, ideal_df)
           /\ results' = ResultsAppend(results,
                  ResultRow(row, FindBestMatch(row.x, row.y, best_fit_funcs,
                                               ideal_df, training_df)))
    /\ UNCHANGED <<training_df, ideal_df, test_df, best_fit_funcs, pc, exc,
                   training_series, best_func>>

MatchRaise ==
    /\ pc = "match"
    /\ Len(results) < Len(test_df)
    /\ FindBestMatchRaises(test_df[Len(results) + 1].x, best_fit_funcs, ideal_df)
    /\ pc' = "raised"
    /\ exc' = "KeyError"
    /\ UNCHANGED <<training_df, ideal_df, test_df, best_fit_funcs, results,
                   training_series, best_func>>

(* Lines 127-129: the rows collected are the value returned.               *)
Return ==
    /\ pc = "match"
    /\ Len(results) = Len(test_df)
    /\ pc' = "done"
    /\ UNCHANGED <<training_df, ideal_df, test_df, best_fit_funcs, results, exc,
                   training_series, best_func>>

Next == FitStep \/ FitRaise \/ MatchStep \/ MatchRaise \/ Return

Spec == Init /\ [][Next]_vars

----------------------------------------------------------------------------
(* _find_best_fit on its own: one call, for every training series and      *)
(* every ideal table of the bounds.  Nothing of map_test_data has run.     *)

Series == UNION { Column(n) : n \in 0 .. MaxRows }

InitFit ==
    /\ training_series \in Series
    /\ ideal_df \in IdealFrames
    /\ best_func = None
    /\ pc = "call"
    /\ exc = "none"
    /\ training_df = [x |-> <<>>, y |-> [i \in 1 .. NumTraining |-> <<>>]]
    /\ test_df = <<>>
    /\ best_fit_funcs = <<>>
    /\ results = <<>>

FindBestFitReturn ==
    /\ pc = "call"
    /\ ~FindBestFitRaises(training_series, ideal_df)
    /\ best_func' = FindBestFit(training_series, ideal_df)
    /\ pc' = "returned"
    /\ UNCHANGED <<training_df, ideal_df, test_df, best_fit_funcs, results, exc,
                   training_series>>

FindBestFitRaise ==
    /\ pc = "call"
    /\ FindBestFitRaises(training_series, ideal_df)
    /\ pc' = "raised"
    /\ exc' = "ValueError"
    /\ UNCHANGED <<training_df, ideal_df, test_df, best_fit_funcs, results,
                   training_series, best_func>>

NextFit == FindBestFitReturn \/ FindBestFitRaise

SpecFit == InitFit /\ [][NextFit]_vars

----------------------------------------------------------------------------
(* What the properties below speak of.                                     *)

NumCols == Len(ideal_df.cols)

Range(f) == { f[i] : i \in DOMAIN f }

(* The two tables have the same x column, row by row.                      *)
Aligned == training_df.x = ideal_df.index

(* The squared-error sum of the call's training series against ideal       *)
(* column c.                                                               *)
CallMse(c) == mean_squared_error(training_series, ideal_df.cols[c])

(* max over the shared x of |T_i(x) - C_c(x)|, the samples paired by x.    *)
MaxDiffByX(i, c) ==
    MaxOf({ Abs(training_df.y[i][p] - ideal_df.cols[c][q]) :
              <<p, q>> \in { pq \in (1 .. Len(training_df.x)) \X (1 .. Len(ideal_df.index)) :
                               training_df.x[pq[1]] = ideal_df.index[pq[2]] } })

(* For the test row k and the entry idx of best_fit_funcs: the deviation   *)
(* of the row from the entry's function, and whether it is within the      *)
(* entry's max-allowed-deviation as _find_best_match computes it.          *)
Deviation(k, idx) ==
    Abs(test_df[k].y - Loc(ideal_df, test_df[k].x, best_fit_funcs[idx]))

Eligible(k) ==
    { idx \in DOMAIN best_fit_funcs :
        WithinAllowed(Deviation(k, idx),
                      MaxAbsDiff(training_df, ideal_df, idx, best_fit_funcs[idx])) }

Assigned(k) == results[k].ideal_func_no # None

----------------------------------------------------------------------------
(* C1: the column _find_best_fit returns for a training series, over a     *)
(* non-empty set of ideal columns, has the minimal MSE against the series  *)
(* among all columns, and no column before it in the column order has the  *)
(* same MSE.                                                               *)
C1_FirstMinimalMse ==
    (pc = "returned" /\ NumCols > 0) =>
        /\ best_func \in 1 .. NumCols
        /\ \A c \in 1 .. NumCols : CallMse(best_func) <= CallMse(c)
        /\ \A c \in 1 .. best_func - 1 : CallMse(c) # CallMse(best_func)

(* Two columns tie for a minimum that is not 0, and the first of them was  *)
(* returned.                                                               *)
C1_Witness ==
    /\ pc = "returned"
    /\ NumCols >= 2
    /\ CallMse(1) = CallMse(2)
    /\ CallMse(1) > 0
    /\ best_func = 1

(* C2: for aligned tables, every assigned result row has delta_y =         *)
(* |y - C_i(x)| and delta_y <= sqrt(2) * max over the shared x of          *)
(* |T_i(x) - C_i(x)|, i the row's ideal_func_no and C_i the function       *)
(* selected for training series i.                                         *)
C2_DeviationWithinTrueBound ==
    \A k \in DOMAIN results :
        (Aligned /\ Assigned(k)) =>
            LET i == results[k].ideal_func_no
                m == MaxDiffByX(i, best_fit_funcs[i])
            IN  /\ results[k].delta_y = Deviation(k, i)
                /\ results[k].delta_y * results[k].delta_y <= 2 * m * m

(* C3: for aligned tables, once a test row has been matched, the maximum   *)
(* _find_best_match scales by sqrt(2) for entry idx is the maximum over    *)
(* the shared x of |T_idx(x) - C(x)|, the samples paired by x.             *)
C3_MaxAllowedPairsByX ==
    (Aligned /\ Len(results) > 0) =>
        \A idx \in DOMAIN best_fit_funcs :
            MaxAbsDiff(training_df, ideal_df, idx, best_fit_funcs[idx])
                = MaxDiffByX(idx, best_fit_funcs[idx])

(* C4: a result row of a test point that no entry is eligible for is       *)
(* unassigned, and its delta_y is absent (None or NaN).                    *)
C4_UnassignedHasNoDeviation ==
    \A k \in DOMAIN results :
        Eligible(k) = {} =>
            /\ results[k].ideal_func_no = None
            /\ results[k].delta_y \in {None, nan}

(* C5: with a function selected for every training series, matching never  *)
(* ends in an exception: a test x the ideal table lacks is skipped.        *)
C5_AbsentXDoesNotAbort ==
    (pc = "raised" /\ exc = "KeyError") => None \in Range(best_fit_funcs)

(* C6: best-fit selection for a training table that has rows never yields  *)
(* an entry without a function, whatever the ideal table holds.            *)
C6_NoNoneInAssignment ==
    Len(training_df.x) > 0 => None \notin Range(best_fit_funcs)

(* C7: when the training table and the ideal table are not over the same   *)
(* set of x values, selection over a non-empty set of ideal columns yields *)
(* no entry: no MSE of the two is taken.                                   *)
C7_MisalignedSelectsNothing ==
    (NumCols > 0 /\ Range(training_df.x) # Range(ideal_df.index)) =>
        best_fit_funcs = <<>>

(* C8: an assigned result row names the ideal column that was selected for *)
(* the winning training series.                                            *)
C8_ResultNamesIdealColumn ==
    \A k \in DOMAIN results :
        Assigned(k) =>
            LET win == FindBestMatch(test_df[k].x, test_df[k].y, best_fit_funcs,
                                     ideal_df, training_df).best_fit
            IN  results[k].ideal_func_no = best_fit_funcs[win]

(* C9: the result rows are the test rows' results in the test rows' order: *)
(* row k carries x and y of test row k, equal test rows have equal result  *)
(* rows, and the value returned has one row per test row.                  *)
C9_OneResultPerPointInOrder ==
    /\ Len(results) <= Len(test_df)
    /\ \A k \in DOMAIN results :
           /\ results[k].x = test_df[k].x
           /\ results[k].y = test_df[k].y
    /\ \A j, k \in DOMAIN results :
           test_df[j] = test_df[k] => results[j] = results[k]
    /\ pc = "done" => Len(results) = Len(test_df)

(* Two different test rows, one assigned and one not, have been returned.  *)
C9_Witness ==
    /\ pc = "done"
    /\ Len(results) = 2
    /\ test_df[1].x # test_df[2].x
    /\ Assigned(1)
    /\ ~Assigned(2)

(* C10: a result row's entry is an eligible entry of the smallest          *)
(* deviation, the one of the lowest index among those, and delta_y is its  *)
(* deviation; with no eligible entry the row is unassigned.                *)
C10_SmallestEligibleLowestIndex ==
    \A k \in DOMAIN results :
        IF Eligible(k) = {} THEN ~Assigned(k)
        ELSE LET i == results[k].ideal_func_no
             IN  /\ i \in Eligible(k)
                 /\ results[k].delta_y = Deviation(k, i)
                 /\ \A e \in Eligible(k) :
                        /\ Deviation(k, i) <= Deviation(k, e)
                        /\ Deviation(k, e) = Deviation(k, i) => i <= e

(* For the first row entries 1 and 2 tie and entry 1 was taken; for the    *)
(* second row entry 1 is eligible and a later entry of a smaller deviation *)
(* was taken.                                                              *)
C10_Witness ==
    /\ Len(results) = 2
    /\ {1, 2} \subseteq Eligible(1)
    /\ Deviation(1, 1) = Deviation(1, 2)
    /\ results[1].ideal_func_no = 1
    /\ 1 \in Eligible(2)
    /\ Assigned(2)
    /\ results[2].ideal_func_no > 1
    /\ results[2].delta_y < Deviation(2, 1)

====
